---------------------------- MODULE Spec2Model ----------------------------
(***************************************************************************)
(* A model of the logGear dispatch engine (src/logger/logger.ts): the      *)
(* Logger's registered lists, its level gate and the per-record pipeline   *)
(* trigger fan-out -> per-stream {filters -> obfuscators -> handle}, and   *)
(* the stream lifecycle calls made by addStream, removeStream and the      *)
(* unload listener.                                                        *)
(*                                                                         *)
(* Every call the Logger makes on a caller-supplied object (message        *)
(* supplier, trigger, filter, obfuscator, stream hook) is appended to the  *)
(* sequence `calls`, which holds the calls of the most recent operation.   *)
(***************************************************************************)
EXTENDS Integers, Sequences, FiniteSets, TLC

(***************************************************************************)
(* Bounds of the model.                                                    *)
(***************************************************************************)
\* the longest #streams list the model builds
MaxStreams == 2
\* the most triggers, filters and obfuscators registered at one time, in total
MaxHandlers == 2
\* the most tokens on the command line
MaxArgs == 2
\* the file stream: messages handled or logged, greatest backup index on
\* the file system, and the number of nested drains the call stack has
\* room for
MaxRecords == 3
MaxIndex == 3
StackDepth == 2
\* the messages written that the model follows a stream for
MaxWrites == 4
\* the setup and destroy calls counted for one stream
MaxCalls == 3
\* the size BufWriterSync takes when it is given none
DefaultBufSize == 4

(***************************************************************************)
(* Levels.  Only the ascending order of the ordinals matters.              *)
(***************************************************************************)
Level == [DEBUG |-> 10, INFO |-> 20, WARNING |-> 30, ERROR |-> 40, CRITICAL |-> 50]

\* the levels withLevel is called with
MinLevelInputs == {Level.WARNING}
\* the levels records are emitted at
EmitLevels == {Level.INFO, Level.WARNING}

(***************************************************************************)
(* The objects a caller hands to the Logger.                               *)
(***************************************************************************)
\* the default stream installed by the field initialiser
ConsoleStream == "console"
\* caller-made streams: s1 declares every optional hook (the tests'
\* TestStream), s2 declares only logHeader and destroy
TestStreams == {"s1", "s2"}
Triggers == {"t1", "t2"}
Filters == {"f1", "f2"}
Obfuscators == {"o1", "o2"}
\* message values; a supplier returns one of them when invoked
Msgs == {"hello", "Filter out", "obfuscate"}
\* what a gated-out supplier call returns
Undefined == "undefined"

\* the optional members of a Stream that the object declares
Hooks(stream) ==
  CASE stream = "s2" -> {"logHeader", "destroy"}
    [] OTHER -> {"setup", "logHeader", "logFooter", "destroy"}

\* new ImmutableLogRecord(resolvedMsg, metadata, level)
ImmutableLogRecord(msg, level) == [msg |-> msg, level |-> level]
NoRecord == [msg |-> "", level |-> 0]

\* one call made by the Logger: the member called, the object it was called
\* on, the index i of the stream loop (0 outside it), the stream argument
\* and the record argument
Call(fn, who, i, stream, rec) ==
  [fn |-> fn, who |-> who, i |-> i, stream |-> stream, rec |-> rec]

\* Filter.shouldFilterOut(stream, logRecord):
\*   f1 is the tests' TestFilter; f2 filters every record out of s1
shouldFilterOut(filter, stream, rec) ==
  CASE filter = "f1" -> stream = "s1" /\ rec.msg = "Filter out"
    [] filter = "f2" -> stream = "s1"
    [] OTHER -> FALSE

\* Obfuscator.obfuscate(stream, logRecord):
\*   o1 is the tests' TestObfuscator (rewrites only for s1);
\*   o2 masks, for every stream, a record it finds already rewritten or
\*   marked "Filter out"
obfuscate(obfuscator, stream, rec) ==
  CASE obfuscator = "o1" /\ stream = "s1" /\ rec.msg = "obfuscate" ->
         [rec EXCEPT !.msg = "*********"]
    [] obfuscator = "o2" /\ rec.msg \in {"*********", "Filter out"} ->
         [rec EXCEPT !.msg = "masked"]
    [] OTHER -> rec

\* caller-made objects with a member that raises when it is called: a
\* trigger's check, a filter's shouldFilterOut, an obfuscator's obfuscate,
\* the handle of stream sx, the setup of stream sb
ThrowingTriggers == {"tx"}
ThrowingFilters == {"fx"}
ThrowingObfuscators == {"ox"}
HandleThrows == {"sx"}
SetupThrows == {"sb"}
\* what a call that raised leaves in place of a return value
Thrown == "Error"

\* the call raises
Throws(call) ==
  \/ call.fn = "check" /\ call.who \in ThrowingTriggers
  \/ call.fn = "shouldFilterOut" /\ call.who \in ThrowingFilters
  \/ call.fn = "obfuscate" /\ call.who \in ThrowingObfuscators
  \/ call.fn = "handle" /\ call.who \in HandleThrows
  \/ call.fn = "setup" /\ call.who \in SetupThrows

\* every stream object of the model
Sinks == {ConsoleStream} \cup TestStreams \cup HandleThrows \cup SetupThrows

VARIABLES
  minLevel,      \* #minLevel
  streams,       \* #streams
  filters,       \* #filters
  triggers,      \* #triggers
  obfuscators,   \* #obfuscators
  streamAdded,   \* #streamAdded
  op,            \* the most recent operation and its arguments
  calls,         \* the calls that operation made, in order
  ret,           \* what that operation returned (emit only)
  shadow,        \* the calls of a second run of the same emit, see Emit
  meta,          \* #meta
  ctor,          \* what the constructor read: Deno.args and the environment
  levelSet,      \* the level of the latest withLevel call, NoLevel before it
  queue,         \* FileStream.#deferredLogQueue
  buffer,        \* the bytes held by FileStream.#buffer
  isOpen,        \* FileStream.#logFile is an open file
  files,         \* the file system: 0 is the log file, k its backup .k
  microtasks,    \* the drains queued by queueMicrotask and not yet run
  currentFileSize, \* ByteRotationStrategy.#currentFileSize
  cfg,           \* what the FileStream and its strategy were configured with
  phase,         \* "new", "open" (set up), "failed", "closed" (destroyed)
  accepted,      \* the records handle has pushed onto the queue, in order
  written,       \* the ids of the messages log has given to the buffer
  nextId,        \* the id of the next message
  sinkOp,        \* the latest call on the file stream and how it ended
  turn,          \* what happened since the latest microtask ran
  dated,         \* the date-suffixed backups in the directory
  boundaryCrossed, \* the wall clock has passed a period boundary since setup
  periodStart,   \* the number of writes made before that boundary
  setups,        \* how often the Logger has called setup on each stream
  destroys       \* how often the Logger has called destroy on each stream

\* the variables of the file stream, which the Logger's operations leave alone
sinkVars == <<queue, buffer, isOpen, files, microtasks, currentFileSize, cfg,
              phase, accepted, written, nextId, sinkOp, turn, dated,
              boundaryCrossed, periodStart>>
\* the variables of the Logger, which the file stream's operations leave alone
loggerVars == <<minLevel, streams, filters, triggers, obfuscators,
                streamAdded, op, calls, ret, shadow, meta, ctor, levelSet,
                setups, destroys>>
\* the counts of lifecycle calls, kept under SpecLife
lifeVars == <<setups, destroys>>

vars == <<minLevel, streams, filters, triggers, obfuscators, streamAdded,
          op, calls, ret, shadow, meta, ctor, levelSet, sinkVars, lifeVars>>

\* a message argument: a concrete value (fn = FALSE, val the value) or a
\* zero-argument supplier (fn = TRUE, val what it returns when invoked)
MsgArgs ==
  [fn : {FALSE}, val : Msgs] \cup [fn : {TRUE}, val : {"obfuscate"}]
NoMsg == [fn |-> FALSE, val |-> ""]

\* the operation descriptor: its name, the object passed (arg), whether that
\* object was in the list concerned when the operation began (had), and an
\* emit's level and message
Op(name, arg, had, level, msg) ==
  [name |-> name, arg |-> arg, had |-> had, level |-> level, msg |-> msg]

Range(seq) == {seq[k] : k \in 1..Len(seq)}

\* Array.prototype.filter((x) => x !== removed)
Without(seq, x) == SelectSeq(seq, LAMBDA y : y # x)

(***************************************************************************)
(* logToStreams                                                            *)
(***************************************************************************)
\* the gate with the comparison turned round
GatedReversed(min, level) == level > min

\* the level gate: this.#minLevel > level
Gated(min, level) == min > level

\* resolving that invokes the supplier a second time for the value returned
ResolveMsgTwice(msg) ==
  [value |-> msg.val,
   calls |-> IF msg.fn THEN <<Call("msg", "supplier", 0, "", NoRecord),
                              Call("msg", "supplier", 0, "", NoRecord)>>
             ELSE <<>>]

\* msg instanceof Function ? msg() : msg
ResolveMsg(msg) ==
  [value |-> msg.val,
   calls |-> IF msg.fn THEN <<Call("msg", "supplier", 0, "", NoRecord)>>
             ELSE <<>>]

\* what the gated-out branch returns: msg instanceof Function ? undefined : msg
GatedReturn(msg) == IF msg.fn THEN Undefined ELSE msg.val

\* the trigger loop running from the last trigger to the first
RECURSIVE CheckTriggersReversed(_, _, _)
CheckTriggersReversed(trigs, i, rec) ==
  IF i > Len(trigs) THEN <<>>
  ELSE CheckTriggersReversed(trigs, i + 1, rec)
       \o <<Call("check", trigs[i], 0, "", rec)>>

\* the trigger loop, from index i
RECURSIVE CheckTriggers(_, _, _)
CheckTriggers(trigs, i, rec) ==
  IF i > Len(trigs) THEN <<>>
  ELSE <<Call("check", trigs[i], 0, "", rec)>>
       \o CheckTriggers(trigs, i + 1, rec)

\* the filter loop without "&& !skip" in its condition
RECURSIVE ApplyFiltersNoBreak(_, _, _, _, _, _)
ApplyFiltersNoBreak(flts, j, skip, i, stream, rec) ==
  IF j > Len(flts) THEN [skip |-> skip, calls |-> <<>>]
  ELSE LET out  == skip \/ shouldFilterOut(flts[j], stream, rec)
           rest == ApplyFiltersNoBreak(flts, j + 1, out, i, stream, rec)
       IN  [skip  |-> rest.skip,
            calls |-> <<Call("shouldFilterOut", flts[j], i, stream, rec)>>
                      \o rest.calls]

\* the filter loop of stream number i, from index j: the final value of
\* skip and the calls made
RECURSIVE ApplyFilters(_, _, _, _, _, _)
ApplyFilters(flts, j, skip, i, stream, rec) ==
  IF j > Len(flts) \/ skip THEN [skip |-> skip, calls |-> <<>>]
  ELSE LET out  == shouldFilterOut(flts[j], stream, rec)
           rest == ApplyFilters(flts, j + 1, out, i, stream, rec)
       IN  [skip  |-> rest.skip,
            calls |-> <<Call("shouldFilterOut", flts[j], i, stream, rec)>>
                      \o rest.calls]

\* the obfuscator loop of stream number i, from index j: the final value of
\* logRecord and the calls made
RECURSIVE ApplyObfuscators(_, _, _, _, _, _)
ApplyObfuscators(obfs, j, skip, i, stream, rec) ==
  IF j > Len(obfs) \/ skip THEN [rec |-> rec, calls |-> <<>>]
  ELSE LET out  == obfuscate(obfs[j], stream, rec)
           rest == ApplyObfuscators(obfs, j + 1, skip, i, stream, out)
       IN  [rec   |-> rest.rec,
            calls |-> <<Call("obfuscate", obfs[j], i, stream, rec)>>
                      \o rest.calls]

\* the stream loop with a record variable declared inside the loop body, so
\* that every stream starts from the record the emit constructed
RECURSIVE ProcessStreamsPerStreamRecord(_, _, _, _, _)
ProcessStreamsPerStreamRecord(strs, i, flts, obfs, rec) ==
  IF i > Len(strs) THEN <<>>
  ELSE LET stream == strs[i]
           f == ApplyFilters(flts, 1, FALSE, i, stream, rec)
           o == ApplyObfuscators(obfs, 1, f.skip, i, stream, rec)
           h == IF ~f.skip THEN <<Call("handle", stream, i, stream, o.rec)>>
                ELSE <<>>
       IN  f.calls \o o.calls \o h
           \o ProcessStreamsPerStreamRecord(strs, i + 1, flts, obfs, rec)

\* the stream loop with the condition i < length - 1: the last stream is
\* left out
RECURSIVE ProcessStreamsOffByOne(_, _, _, _, _)
ProcessStreamsOffByOne(strs, i, flts, obfs, rec) ==
  IF i >= Len(strs) THEN <<>>
  ELSE LET stream == strs[i]
           f == ApplyFilters(flts, 1, FALSE, i, stream, rec)
           o == ApplyObfuscators(obfs, 1, f.skip, i, stream, rec)
           h == IF ~f.skip THEN <<Call("handle", stream, i, stream, o.rec)>>
                ELSE <<>>
       IN  f.calls \o o.calls \o h
           \o ProcessStreamsOffByOne(strs, i + 1, flts, obfs, o.rec)

\* the stream loop, from index i; logRecord is the one variable declared
\* before the loop, so what the obfuscators of stream i assign to it is
\* what stream i + 1 starts from
RECURSIVE ProcessStreams(_, _, _, _, _)
ProcessStreams(strs, i, flts, obfs, rec) ==
  IF i > Len(strs) THEN <<>>
  ELSE LET stream == strs[i]
           f == ApplyFilters(flts, 1, FALSE, i, stream, rec)
           o == ApplyObfuscators(obfs, 1, f.skip, i, stream, rec)
           h == IF ~f.skip THEN <<Call("handle", stream, i, stream, o.rec)>>
                ELSE <<>>
       IN  f.calls \o o.calls \o h
           \o ProcessStreams(strs, i + 1, flts, obfs, o.rec)

\* a method that catches what its calls raise and carries on
UpToThrowCaught(cs) == cs

\* the calls a method body makes when cs are the calls it makes if none
\* raises: no call is inside a try block, so what a call raises leaves the
\* method at once and no later call is made
RECURSIVE UpToThrow(_)
UpToThrow(cs) ==
  IF cs = <<>> THEN <<>>
  ELSE IF Throws(Head(cs)) THEN <<Head(cs)>>
  ELSE <<Head(cs)>> \o UpToThrow(Tail(cs))

\* one of the calls raised
Raised(cs) == \E k \in 1..Len(cs) : Throws(cs[k])

\* logToStreams(level, msg, metadata) with the filter list flts: the value
\* returned and the calls made
LogToStreams(flts, level, msg) ==
  IF Gated(minLevel, level)
  THEN [ret |-> GatedReturn(msg), calls |-> <<>>]
  ELSE LET resolved == ResolveMsg(msg)
           logRecord == ImmutableLogRecord(resolved.value, level)
           made == UpToThrow(resolved.calls
                             \o CheckTriggers(triggers, 1, logRecord)
                             \o ProcessStreams(streams, 1, flts, obfuscators,
                                               logRecord))
       IN  [ret   |-> IF Raised(made) THEN Thrown ELSE resolved.value,
            calls |-> made]

(***************************************************************************)
(* Lifecycle calls                                                         *)
(***************************************************************************)
\* if (stream.hook) stream.hook(...)
HookCall(stream, hook) ==
  IF hook \in Hooks(stream) THEN <<Call(hook, stream, 0, stream, NoRecord)>>
  ELSE <<>>

\* addStream's calls on the stream: setup, then logHeader
SetupCalls(stream) == HookCall(stream, "setup") \o HookCall(stream, "logHeader")

\* destroy ahead of logFooter
TeardownCallsDestroyFirst(stream) ==
  HookCall(stream, "destroy") \o HookCall(stream, "logFooter")

\* logFooter, then destroy: the body shared by removeStream and the unload
\* listener's loop
TeardownCalls(stream) ==
  HookCall(stream, "logFooter") \o HookCall(stream, "destroy")

\* a listener that tears down the first stream only
UnloadCallsFirstOnly(strs, i) ==
  IF i > Len(strs) THEN <<>> ELSE TeardownCalls(strs[i])

\* the unload listener's loop over #streams, from index i
RECURSIVE UnloadCalls(_, _)
UnloadCalls(strs, i) ==
  IF i > Len(strs) THEN <<>>
  ELSE TeardownCalls(strs[i]) \o UnloadCalls(strs, i + 1)

\* a command-line token: minLogLevel=<value> (key "minLogLevel") or any
\* other token (key "other")
ArgTokens ==
  [key : {"minLogLevel"}, value : {"INFO", "ERROR", "rubbish!"}]
    \cup {[key |-> "other", value |-> "INFO"]}
RECURSIVE SeqsUpTo(_, _)
SeqsUpTo(S, n) ==
  IF n = 0 THEN {<<>>}
  ELSE SeqsUpTo(S, n - 1)
         \cup {Append(s, x) : s \in {q \in SeqsUpTo(S, n - 1) : Len(q) = n - 1},
                              x \in S}
\* the command lines the engine is constructed under
ArgLists == SeqsUpTo(ArgTokens, MaxArgs)

\* what Deno.env.get("LOGGEAR_MIN_LEVEL") does: it throws (no permission),
\* or returns undefined (set = FALSE) or the variable's value
EnvAbsent == [throws |-> FALSE, set |-> FALSE, value |-> ""]
EnvInputs ==
  {EnvAbsent, [throws |-> TRUE, set |-> FALSE, value |-> ""]}
    \cup [throws : {FALSE}, set : {TRUE}, value : {"", "ERROR", "Rubbish!"}]

\* a string or undefined
Some(value) == [defined |-> TRUE, value |-> value]
None == [defined |-> FALSE, value |-> ""]

\* nameToLevel(name): the level of that name, 1 for any other name
UnknownLevel == 1
NameToLevel(name) ==
  IF name \in DOMAIN Level THEN Level[name] ELSE UnknownLevel

\* getArgsMinLevel(): the text after "minLogLevel=" of the first token that
\* starts with it, scanning from index i
RECURSIVE GetArgsMinLevel(_, _)
GetArgsMinLevel(args, i) ==
  IF i > Len(args) THEN None
  ELSE IF args[i].key = "minLogLevel" THEN Some(args[i].value)
  ELSE GetArgsMinLevel(args, i + 1)

\* getEnvMinLevel(): the variable's value, undefined when the read throws
GetEnvMinLevel(env) ==
  IF env.throws THEN None
  ELSE IF env.set THEN Some(env.value) ELSE None

\* new LogMetaImpl(): the class declares minLogLevel and minLogLevelFrom (and
\* sessionStarted, hostname); it declares no unableToReadEnvVar, so that
\* member of LogMeta reads as undefined, modelled as FALSE
LogMetaImpl ==
  [minLogLevel |-> Level.DEBUG, minLogLevelFrom |-> "default value",
   unableToReadEnvVar |-> FALSE]

\* a constructor that looks at the environment variable ahead of the
\* command line
ConstructedLevelEnvFirst(args, env) ==
  LET argsMinLevel == GetArgsMinLevel(args, 1)
      envDefaultMinLevel == GetEnvMinLevel(env)
  IN  IF envDefaultMinLevel.defined /\ envDefaultMinLevel.value # ""
      THEN [minLevel |-> NameToLevel(envDefaultMinLevel.value),
            meta |-> [LogMetaImpl EXCEPT
                        !.minLogLevelFrom = "environment variable",
                        !.minLogLevel = NameToLevel(envDefaultMinLevel.value)]]
      ELSE IF argsMinLevel.defined
      THEN [minLevel |-> NameToLevel(argsMinLevel.value),
            meta |-> [LogMetaImpl EXCEPT
                        !.minLogLevelFrom = "command line arguments",
                        !.minLogLevel = NameToLevel(argsMinLevel.value)]]
      ELSE [minLevel |-> Level.DEBUG, meta |-> LogMetaImpl]

\* the constructor's level resolution: #minLevel and #meta as it leaves them.
\* nameToLevel never returns undefined, so the second half of both
\* conditions is true; an empty string from the environment is falsy.
ConstructedLevel(args, env) ==
  LET argsMinLevel == GetArgsMinLevel(args, 1)
  IN  IF argsMinLevel.defined
      THEN [minLevel |-> NameToLevel(argsMinLevel.value),
            meta |-> [LogMetaImpl EXCEPT
                        !.minLogLevelFrom = "command line arguments",
                        !.minLogLevel = NameToLevel(argsMinLevel.value)]]
      ELSE LET envDefaultMinLevel == GetEnvMinLevel(env)
           IN  IF envDefaultMinLevel.defined /\ envDefaultMinLevel.value # ""
               THEN [minLevel |-> NameToLevel(envDefaultMinLevel.value),
                     meta |-> [LogMetaImpl EXCEPT
                        !.minLogLevelFrom = "environment variable",
                        !.minLogLevel = NameToLevel(envDefaultMinLevel.value)]]
               ELSE [minLevel |-> Level.DEBUG, meta |-> LogMetaImpl]

\* withLevel has not been called
NoLevel == 0

\* the file stream before it is constructed
(***************************************************************************)
(* The file stream                                                         *)
(***************************************************************************)
\* a file that does not exist, and one holding bytes
NoFile == [exists |-> FALSE, bytes |-> <<>>]
File(bytes) == [exists |-> TRUE, bytes |-> bytes]
\* no error was thrown
NoError == ""

\* rotation strategies: none (the default), or every(maxBytes).bytes() with
\* the retention policy of(quantity).files()
\* type and quantity are those of the retention policy the strategy holds
NoStrategy ==
  [kind |-> "none", maxBytes |-> 0, quantity |-> 0, type |-> "files"]
ByteStrategies ==
  [kind : {"bytes"}, maxBytes : {1, 2}, quantity : {1, 2}, type : {"files"}]
\* every(maxBytes).bytes() with the retention of(quantity).days() or .hours()
AgedByteStrategies ==
  [kind : {"bytes"}, maxBytes : {1}, quantity : {1}, type : {"days", "hours"}]
\* every(n).minutes(), .hours() or .days(), with either kind of retention
DateTimeStrategies ==
  [kind : {"datetime"}, maxBytes : {0}, quantity : {1},
   type : {"files", "days"}]
\* date-suffixed backups: one younger and one older than the retention
\* policy's maxPeriodDate
DatedBackups == {"recent", "old"}
InitModes == {"append", "overwrite", "mustNotExist"}
\* withBufferSize: 0 switches the rotation check off
BufferSizes == {0, 2}
\* FileStream's field initialisers
DefaultConfig ==
  [strategy |-> NoStrategy, initMode |-> "append", maxBufferSize |-> 2,
   minLogLevel |-> Level.DEBUG]
Configured(strategy, initMode, maxBufferSize, minLogLevel) ==
  [strategy |-> strategy, initMode |-> initMode,
   maxBufferSize |-> maxBufferSize, minLogLevel |-> minLogLevel]
\* the configurations followed: every strategy under every init mode, a
\* stream of minimum level CRITICAL, and a byte strategy on a stream of
\* buffer size 0
FileConfigs ==
  {Configured(s, m, 2, Level.DEBUG) :
     s \in {NoStrategy} \cup ByteStrategies, m \in InitModes}
    \cup {Configured(NoStrategy, "append", 2, Level.CRITICAL)}
    \cup {Configured(s, "overwrite", b, Level.DEBUG) :
            s \in {t \in ByteStrategies : t.maxBytes = 1 /\ t.quantity = 1},
            b \in BufferSizes}

\* the bytes of a message: as many as its size, each carrying the id
FileBytes(rec) == [k \in 1..rec.size |-> rec.id]
\* the byte an existing log file holds (0) and the byte of backup k (-k)
OldBytes(k) == <<0 - k>>
NoFiles == [k \in 0..MaxIndex |-> NoFile]
\* the file system holding the log file iff live, and the backups ks
OldFiles(live, ks) ==
  [k \in 0..MaxIndex |->
     IF (k = 0 /\ live) \/ k \in ks THEN File(OldBytes(k)) ELSE NoFile]

\* new BufWriterSync(file, size): a size of 0 gives the default size
Capacity == IF cfg.maxBufferSize > 0 THEN cfg.maxBufferSize ELSE DefaultBufSize

\* a write of bytes to the open file
ToFile(s, bytes) ==
  IF ~s.open THEN [s EXCEPT !.threw = "BadResource"]
  ELSE [s EXCEPT !.files[0].bytes = @ \o bytes]

\* a flush that leaves the bytes in the buffer
BufFlushKept(s) == s

\* BufWriterSync.flush()
BufFlush(s) ==
  IF s.buffer = <<>> THEN s ELSE ToFile([s EXCEPT !.buffer = <<>>], s.buffer)

\* BufWriterSync.writeSync(data): data that does not fit goes to the file
\* directly when the buffer is empty, else fills the buffer, which is
\* flushed; what then is left is copied into the buffer
RECURSIVE WriteSync(_, _)
WriteSync(s, data) ==
  IF s.threw # NoError THEN s
  ELSE IF Len(data) > Capacity - Len(s.buffer)
  THEN IF s.buffer = <<>> THEN ToFile(s, data)
       ELSE LET n == Capacity - Len(s.buffer)
            IN  WriteSync(ToFile([s EXCEPT !.buffer = <<>>],
                                 s.buffer \o SubSeq(data, 1, n)),
                          SubSeq(data, n + 1, Len(data)))
  ELSE [s EXCEPT !.buffer = @ \o data]

\* shouldRotate with currentFileSize always 0
ShouldRotateFromZero(size, n) == n > cfg.strategy.maxBytes

\* ByteRotationStrategy.shouldRotate(encodedMessage)
ShouldRotate(size, n) == (size + n) > cfg.strategy.maxBytes

\* the renames of rotate in ascending order of index, from 0 up to i
RECURSIVE RenamesUpFrom(_, _, _)
RenamesUpFrom(fs, j, i) ==
  IF j > i THEN fs
  ELSE RenamesUpFrom(IF fs[j].exists
                     THEN [fs EXCEPT ![j + 1] = fs[j], ![j] = NoFile]
                     ELSE fs, j + 1, i)
RenamesAscending(fs, i) == RenamesUpFrom(fs, 0, i)

\* the loop of rotate, from index i down to 0: renameSync(source, dest)
\* for every source that exists
RECURSIVE Renames(_, _)
Renames(fs, i) ==
  IF i < 0 THEN fs
  ELSE Renames(IF fs[i].exists
               THEN [fs EXCEPT ![i + 1] = fs[i], ![i] = NoFile]
               ELSE fs, i - 1)

\* maxFiles of rotate: the policy's quantity when it counts files; else
\* the greatest numeric suffix among the indices of the array that
\* getLogFilesInDir returns, which have none
MaxFiles == IF cfg.strategy.type = "files" THEN cfg.strategy.quantity ELSE 0

\* ByteRotationStrategy.rotate(filename, logMessage), n the message's bytes
Rotate(s, n) == [s EXCEPT !.files = Renames(@, MaxFiles - 1), !.size = n]

\* DateTimeRotationStrategy: initLogs, shouldRotate and rotate
DateTimeInitLogs(s) == s
DateTimeShouldRotate == FALSE
DateTimeRotate(s) == s

\* Deno.close(this.#logFile.rid)
Close(s) ==
  IF ~s.open THEN [s EXCEPT !.threw = "BadResource"]
  ELSE [s EXCEPT !.open = FALSE]

\* Deno.openSync(filename, {createNew: true, write: true}) and the new
\* BufWriterSync
OpenNew(s) ==
  IF s.files[0].exists THEN [s EXCEPT !.threw = "AlreadyExists"]
  ELSE [s EXCEPT !.files[0] = File(<<>>), !.open = TRUE, !.buffer = <<>>]

\* a step of log, noted in the order the steps are taken
Step(s, name) ==
  IF s.threw # NoError THEN s ELSE [s EXCEPT !.steps = Append(@, name)]

RECURSIVE ProcessDeferredQueue(_, _, _)
RECURSIVE Log(_, _, _)
RECURSIVE Flush(_, _)

\* processDeferredQueue(), from index i of the queue, as the d-th drain on
\* the call stack; the stack holds StackDepth drains and no more
ProcessDeferredQueue(s, i, d) ==
  IF s.threw # NoError THEN s
  ELSE IF d > StackDepth THEN [s EXCEPT !.threw = "RangeError"]
  ELSE IF i > Len(s.queue) THEN [s EXCEPT !.queue = <<>>]
  ELSE ProcessDeferredQueue(Log(s, s.queue[i], d), i + 1, d)

\* log(msg), called with d drains on the call stack
Log(s, rec, d) ==
  LET n == rec.size
      a == IF /\ cfg.maxBufferSize > 0
              /\ cfg.strategy.kind # "none"
              /\ IF cfg.strategy.kind = "datetime" THEN DateTimeShouldRotate
                 ELSE ShouldRotate(s.size, n)
           THEN LET f == Step(Flush(Step(s, "shouldRotate"), d), "flush")
                    c == Step(IF f.threw # NoError THEN f ELSE Close(f),
                              "close")
                    r == Step(IF c.threw # NoError THEN c
                              ELSE IF cfg.strategy.kind = "datetime"
                              THEN DateTimeRotate(c)
                              ELSE Rotate(c, n),
                              "rotate")
                IN  Step(IF r.threw # NoError THEN r ELSE OpenNew(r), "open")
           ELSE s
      w == WriteSync(a, FileBytes(rec))
  IN  IF w.threw # NoError THEN w
      ELSE [w EXCEPT !.written = Append(@, rec.id),
                     !.steps = Append(@, "write")]

\* a flush of the buffer that leaves the deferred queue as it is
FlushBufferOnly(s, d) == BufFlush(s)

\* flush(), called with d drains on the call stack
Flush(s, d) ==
  LET a == IF Len(s.queue) > 0 THEN ProcessDeferredQueue(s, 1, d + 1) ELSE s
  IN  IF a.threw # NoError THEN a ELSE BufFlush(a)

\* ByteRotationStrategy.initLogs(filename, initStrategy), from index i of
\* the loop over the backups.  Under a retention in days or hours the
\* loop runs over the indices of the array of matches, and statSync of an
\* index fails, the working directory holding no file of that name.
RECURSIVE InitLogs(_, _)
InitLogs(s, i) ==
  IF cfg.initMode = "append"
  THEN [s EXCEPT !.size = IF s.files[0].exists THEN Len(s.files[0].bytes)
                          ELSE 0]
  ELSE IF cfg.strategy.type # "files"
  THEN IF dated # {} THEN [s EXCEPT !.threw = "NotFound"] ELSE s
  ELSE IF i > cfg.strategy.quantity THEN s
  ELSE IF s.files[i].exists
  THEN IF cfg.initMode = "mustNotExist"
       THEN [s EXCEPT !.threw = "Error"]
       ELSE InitLogs([s EXCEPT !.files[i] = NoFile], i + 1)
  ELSE InitLogs(s, i + 1)

\* Deno.openSync(filename, openOptions) of setup
OpenLogFile(s) ==
  IF cfg.initMode = "mustNotExist" /\ s.files[0].exists
  THEN [s EXCEPT !.threw = "AlreadyExists"]
  ELSE [s EXCEPT !.files[0] = IF cfg.initMode = "append" /\ @.exists THEN @
                                ELSE File(<<>>),
                 !.open = TRUE, !.buffer = <<>>]

\* the file stream's fields, with no step taken and no error thrown
SinkState ==
  [queue |-> queue, buffer |-> buffer, files |-> files,
   size |-> currentFileSize, open |-> isOpen, written |-> written,
   steps |-> <<>>, threw |-> NoError]

\* no record
NoRec == [id |-> 0, level |-> 0, size |-> 0]
NoSinkOp ==
  [name |-> "", rec |-> NoRec, threw |-> NoError, steps |-> <<>>,
   queued |-> <<>>]
\* a turn in which nothing has happened yet, begun with queue q and with n
\* messages written
NewTurn(q, n) ==
  [emptyAtStart |-> q = <<>>, handled |-> <<>>, pure |-> TRUE,
   scheduled |-> 0, before |-> n]

\* a FileStream constructed with configuration c in a directory holding
\* the files fs and the date-suffixed backups ds
SinkFound(c, fs, ds) ==
  /\ cfg = c /\ files = fs /\ dated = ds
  /\ boundaryCrossed = FALSE /\ periodStart = 0
  /\ queue = <<>> /\ buffer = <<>> /\ isOpen = FALSE
  /\ microtasks = 0 /\ currentFileSize = 0
  /\ phase = "new" /\ accepted = <<>> /\ written = <<>> /\ nextId = 1
  /\ sinkOp = NoSinkOp
  /\ turn = NewTurn(<<>>, 0)

\* a FileStream constructed with configuration c on the file system fs
SinkConstructed(c, fs) == SinkFound(c, fs, {})

SinkInit == SinkConstructed(DefaultConfig, NoFiles)

\* new Logger() under the command line args and the environment env
Constructed(args, env) ==
  /\ ctor = [args |-> args, env |-> env]
  /\ minLevel = ConstructedLevel(args, env).minLevel
  /\ meta = ConstructedLevel(args, env).meta
  /\ levelSet = NoLevel
  /\ streams = <<ConsoleStream>>
  /\ filters = <<>>
  /\ triggers = <<>>
  /\ obfuscators = <<>>
  /\ streamAdded = FALSE
  /\ op = Op("new", "", FALSE, 0, NoMsg)
  /\ calls = <<>>
  /\ ret = Undefined
  /\ shadow = <<>>
  /\ setups = [s \in Sinks |-> 0]
  /\ destroys = [s \in Sinks |-> 0]

\* an engine constructed with no minLogLevel token and no environment variable
Init == Constructed(<<>>, EnvAbsent) /\ SinkInit

(***************************************************************************)
(* Operations                                                              *)
(***************************************************************************)
\* what an operation other than an emit leaves in the observation variables
Observed(name, arg, had, made) ==
  /\ op' = Op(name, arg, had, 0, NoMsg)
  /\ calls' = UpToThrow(made)
  /\ ret' = IF Raised(UpToThrow(made)) THEN Thrown ELSE Undefined
  /\ shadow' = <<>>

NumHandlers == Len(triggers) + Len(filters) + Len(obfuscators)

WithLevel(level) ==
  /\ minLevel' = level
  /\ meta' = [meta EXCEPT !.minLogLevelFrom = "logger.level()",
                          !.minLogLevel = level]
  /\ levelSet' = level
  /\ Observed("withLevel", "", FALSE, <<>>)
  /\ UNCHANGED <<streams, filters, triggers, obfuscators, streamAdded>>
  /\ UNCHANGED <<ctor, sinkVars, lifeVars>>

\* addStream without the removal of the default stream
StreamsKeptOnPush == streams

\* the list addStream pushes onto: emptied by the first call
StreamsBeforePush == IF ~streamAdded THEN <<>> ELSE streams

AddStreamOp(stream) ==
  /\ Len(StreamsBeforePush) < MaxStreams
  /\ streams' = Append(StreamsBeforePush, stream)
  /\ streamAdded' = TRUE
  /\ Observed("addStream", stream, stream \in Range(StreamsBeforePush),
              SetupCalls(stream))
  /\ UNCHANGED <<minLevel, filters, triggers, obfuscators>>
  /\ UNCHANGED <<meta, ctor, levelSet, sinkVars>>

RemoveStreamOp(stream) ==
  /\ streams' = Without(streams, stream)
  /\ Observed("removeStream", stream, stream \in Range(streams),
              TeardownCalls(stream))
  /\ UNCHANGED <<minLevel, filters, triggers, obfuscators, streamAdded>>
  /\ UNCHANGED <<meta, ctor, levelSet, sinkVars>>

AddTrigger(trigger) ==
  /\ NumHandlers < MaxHandlers
  /\ triggers' = Append(triggers, trigger)
  /\ Observed("addTrigger", trigger, trigger \in Range(triggers), <<>>)
  /\ UNCHANGED <<minLevel, streams, filters, obfuscators, streamAdded>>
  /\ UNCHANGED <<meta, ctor, levelSet, sinkVars, lifeVars>>

RemoveTrigger(trigger) ==
  /\ triggers' = Without(triggers, trigger)
  /\ Observed("removeTrigger", trigger, trigger \in Range(triggers), <<>>)
  /\ UNCHANGED <<minLevel, streams, filters, obfuscators, streamAdded>>
  /\ UNCHANGED <<meta, ctor, levelSet, sinkVars, lifeVars>>

AddFilter(filter) ==
  /\ NumHandlers < MaxHandlers
  /\ filters' = Append(filters, filter)
  /\ Observed("addFilter", filter, filter \in Range(filters), <<>>)
  /\ UNCHANGED <<minLevel, streams, triggers, obfuscators, streamAdded>>
  /\ UNCHANGED <<meta, ctor, levelSet, sinkVars, lifeVars>>

RemoveFilter(filter) ==
  /\ filters' = Without(filters, filter)
  /\ Observed("removeFilter", filter, filter \in Range(filters), <<>>)
  /\ UNCHANGED <<minLevel, streams, triggers, obfuscators, streamAdded>>
  /\ UNCHANGED <<meta, ctor, levelSet, sinkVars, lifeVars>>

AddObfuscator(obfuscator) ==
  /\ NumHandlers < MaxHandlers
  /\ obfuscators' = Append(obfuscators, obfuscator)
  /\ Observed("addObfuscator", obfuscator, obfuscator \in Range(obfuscators), <<>>)
  /\ UNCHANGED <<minLevel, streams, filters, triggers, streamAdded>>
  /\ UNCHANGED <<meta, ctor, levelSet, sinkVars, lifeVars>>

RemoveObfuscator(obfuscator) ==
  /\ obfuscators' = Without(obfuscators, obfuscator)
  /\ Observed("removeObfuscator", obfuscator, obfuscator \in Range(obfuscators), <<>>)
  /\ UNCHANGED <<minLevel, streams, filters, triggers, streamAdded>>
  /\ UNCHANGED <<meta, ctor, levelSet, sinkVars, lifeVars>>

\* debug/info/warning/error/critical/log: one call of logToStreams.  shadow
\* holds the calls the same emit makes when filter f2, which filters every
\* record out of stream s1 and out of no other stream, is registered ahead
\* of the registered filters.
EmitOp(level, msg) ==
  /\ op' = Op("emit", "", FALSE, level, msg)
  /\ calls' = LogToStreams(filters, level, msg).calls
  /\ ret' = LogToStreams(filters, level, msg).ret
  /\ shadow' = LogToStreams(<<"f2">> \o filters, level, msg).calls
  /\ UNCHANGED <<minLevel, streams, filters, triggers, obfuscators,
                 streamAdded>>
  /\ UNCHANGED <<meta, ctor, levelSet, sinkVars>>

\* the listener registered by the constructor, run by an unload event
UnloadOp ==
  /\ Observed("unload", "", FALSE, UnloadCalls(streams, 1))
  /\ UNCHANGED <<minLevel, streams, filters, triggers, obfuscators,
                 streamAdded>>
  /\ UNCHANGED <<meta, ctor, levelSet, sinkVars>>

\* the operations on streams, and emit, with the lifecycle calls not counted
AddStream(stream) == AddStreamOp(stream) /\ UNCHANGED lifeVars
RemoveStream(stream) == RemoveStreamOp(stream) /\ UNCHANGED lifeVars
Emit(level, msg) == EmitOp(level, msg) /\ UNCHANGED lifeVars
Unload == UnloadOp /\ UNCHANGED lifeVars

\* how often the operation called the member fn of the stream
CallsMade(fn, stream) ==
  Cardinality({k \in 1..Len(calls') :
                 calls'[k].fn = fn /\ calls'[k].who = stream})

\* the setup and destroy calls of the operation, counted
Counted ==
  /\ setups' = [s \in Sinks |-> setups[s] + CallsMade("setup", s)]
  /\ destroys' = [s \in Sinks |-> destroys[s] + CallsMade("destroy", s)]

\* the engine has not shut down, and fewer than MaxCalls lifecycle calls
\* were made on each stream
Alive ==
  /\ op.name # "unload"
  /\ \A s \in Sinks : setups[s] + destroys[s] < MaxCalls

\* addStream, removeStream, emit and the unload event on one engine, with
\* the setup and destroy calls counted
CountedAddStream(stream) == Alive /\ AddStreamOp(stream) /\ Counted
CountedRemoveStream(stream) == Alive /\ RemoveStreamOp(stream) /\ Counted
CountedEmit(level, msg) == Alive /\ EmitOp(level, msg) /\ Counted
CountedUnload == Alive /\ UnloadOp /\ Counted

NextLife ==
  \/ \E stream \in TestStreams : CountedAddStream(stream)
  \/ \E stream \in TestStreams : CountedRemoveStream(stream)
  \/ \E level \in EmitLevels, msg \in MsgArgs : CountedEmit(level, msg)
  \/ CountedUnload

Next ==
  \/ \E level \in MinLevelInputs : WithLevel(level)
  \/ \E stream \in TestStreams : AddStream(stream)
  \/ \E stream \in TestStreams : RemoveStream(stream)
  \/ \E trigger \in Triggers : AddTrigger(trigger)
  \/ \E trigger \in Triggers : RemoveTrigger(trigger)
  \/ \E filter \in Filters : AddFilter(filter)
  \/ \E filter \in Filters : RemoveFilter(filter)
  \/ \E obfuscator \in Obfuscators : AddObfuscator(obfuscator)
  \/ \E obfuscator \in Obfuscators : RemoveObfuscator(obfuscator)
  \/ \E level \in EmitLevels, msg \in MsgArgs : Emit(level, msg)
  \/ Unload

Spec == Init /\ [][Next]_vars

SpecLife == Init /\ [][NextLife]_vars

(***************************************************************************)
(* The level resolution alone: an engine constructed under any command     *)
(* line and environment, then withLevel calls and emits.                   *)
(***************************************************************************)
(***************************************************************************)
(* Operations of the file stream                                           *)
(***************************************************************************)
\* the ids of a sequence of records
Ids(recs) == [k \in 1..Len(recs) |-> recs[k].id]

\* the fields as the call leaves them, and what is noted of the call
Commit(s, name, rec) ==
  /\ queue' = s.queue
  /\ buffer' = s.buffer
  /\ files' = s.files
  /\ currentFileSize' = s.size
  /\ isOpen' = s.open
  /\ written' = s.written
  /\ sinkOp' = [name |-> name, rec |-> rec, threw |-> s.threw,
                steps |-> s.steps, queued |-> Ids(queue)]

\* the stream is set up and has written fewer than MaxWrites messages
Running == phase = "open" /\ Len(written) < MaxWrites

\* the levels and sizes (bytes of the encoded message) of the records
RecordLevels == {Level.ERROR, Level.CRITICAL}
RecordSizes == {1, 2}

\* setup()
Setup ==
  /\ phase = "new"
  /\ LET a == CASE cfg.strategy.kind = "bytes" -> InitLogs(SinkState, 1)
                 [] cfg.strategy.kind = "datetime" ->
                      DateTimeInitLogs(SinkState)
                 [] OTHER -> SinkState
         b == IF a.threw # NoError THEN a ELSE OpenLogFile(a)
     IN  /\ Commit(b, "setup", NoRec)
         /\ phase' = IF b.threw # NoError THEN "failed" ELSE "open"
  /\ UNCHANGED <<dated, boundaryCrossed, periodStart,
                 microtasks, cfg, accepted, nextId, turn, loggerVars>>

\* handle(logRecord)
Handle(level, size) ==
  /\ Running
  /\ nextId <= MaxRecords
  /\ nextId' = nextId + 1
  /\ LET rec == [id |-> nextId, level |-> level, size |-> size]
     IN  IF cfg.minLogLevel > level
         THEN /\ Commit(SinkState, "handle", rec)
              /\ UNCHANGED <<microtasks, accepted, turn>>
         ELSE IF level > Level.ERROR
         THEN LET pushed == [SinkState EXCEPT !.queue = Append(@, rec)]
                  drained == ProcessDeferredQueue(pushed, 1, 1)
              IN  /\ Commit(Flush(drained, 0), "handle", rec)
                  /\ accepted' = Append(accepted, rec)
                  /\ turn' = [turn EXCEPT !.pure = FALSE]
                  /\ UNCHANGED microtasks
         ELSE /\ microtasks' = IF queue = <<>> THEN microtasks + 1
                               ELSE microtasks
              /\ Commit([SinkState EXCEPT !.queue = Append(@, rec)],
                        "handle", rec)
              /\ accepted' = Append(accepted, rec)
              /\ turn' = [turn EXCEPT
                            !.handled = Append(@, rec.id),
                            !.scheduled = IF queue = <<>> THEN @ + 1 ELSE @]
  /\ UNCHANGED <<dated, boundaryCrossed, periodStart,
                 cfg, phase, loggerVars>>

\* a microtask queued by handle runs: processDeferredQueue()
RunMicrotask ==
  /\ microtasks > 0
  /\ Len(written) < MaxWrites
  /\ microtasks' = microtasks - 1
  /\ LET s == ProcessDeferredQueue(SinkState, 1, 1)
     IN  /\ Commit(s, "drain", NoRec)
         /\ turn' = NewTurn(s.queue, Len(s.written))
  /\ UNCHANGED <<dated, boundaryCrossed, periodStart,
                 cfg, phase, accepted, nextId, loggerVars>>

\* flush(), called by the owner of the stream
FlushCall ==
  /\ Running
  /\ Commit(Flush(SinkState, 0), "flush", NoRec)
  /\ turn' = [turn EXCEPT !.pure = FALSE]
  /\ UNCHANGED <<dated, boundaryCrossed, periodStart,
                 microtasks, cfg, phase, accepted, nextId, loggerVars>>

\* log(msg), called by the owner of the stream or by logHeader/logFooter
LogCall(size) ==
  /\ Running
  /\ nextId <= MaxRecords
  /\ nextId' = nextId + 1
  /\ LET rec == [id |-> nextId, level |-> 0, size |-> size]
     IN  Commit(Log(SinkState, rec, 0), "log", rec)
  /\ turn' = [turn EXCEPT !.pure = FALSE]
  /\ UNCHANGED <<dated, boundaryCrossed, periodStart,
                 microtasks, cfg, phase, accepted, loggerVars>>

\* destroy()
Destroy ==
  /\ Running
  /\ LET f == Flush(SinkState, 0)
         c == IF f.threw # NoError THEN f ELSE Close(f)
     IN  /\ Commit(c, "destroy", NoRec)
         /\ phase' = IF c.threw # NoError THEN "open" ELSE "closed"
  /\ turn' = [turn EXCEPT !.pure = FALSE]
  /\ UNCHANGED <<dated, boundaryCrossed, periodStart,
                 microtasks, cfg, accepted, nextId, loggerVars>>

\* the file systems a stream is set up on: empty, or holding the log file
\* and its backup .1
InitialFiles == {NoFiles, OldFiles(TRUE, {1})}

InitFile ==
  /\ Constructed(<<>>, EnvAbsent)
  /\ \E c \in FileConfigs, fs \in InitialFiles : SinkConstructed(c, fs)

NextFile ==
  \/ Setup
  \/ \E level \in RecordLevels, size \in RecordSizes : Handle(level, size)
  \/ RunMicrotask
  \/ FlushCall
  \/ \E size \in RecordSizes : LogCall(size)
  \/ Destroy

SpecFile == InitFile /\ [][NextFile]_vars

\* the wall clock passes the boundary of the strategy's period
Tick ==
  /\ phase = "open"
  /\ ~boundaryCrossed
  /\ boundaryCrossed' = TRUE
  /\ periodStart' = Len(written)
  /\ UNCHANGED <<queue, buffer, isOpen, files, microtasks, currentFileSize,
                 cfg, phase, accepted, written, nextId, sinkOp, turn, dated,
                 loggerVars>>

\* streams whose strategy holds a retention in days or hours, or is a
\* date/time strategy, written to by log calls
InitDated ==
  /\ Constructed(<<>>, EnvAbsent)
  /\ \E s \in AgedByteStrategies \cup DateTimeStrategies, m \in InitModes,
        fs \in InitialFiles, ds \in SUBSET DatedBackups :
       SinkFound(Configured(s, m, 2, Level.DEBUG), fs, ds)

NextDated ==
  \/ Setup
  \/ \E size \in RecordSizes : LogCall(size)
  \/ Tick

SpecDated == InitDated /\ [][NextDated]_vars

\* the file systems setup may find: the log file there or not, and any set
\* of its backups
FoundFiles ==
  {OldFiles(live, ks) : live \in BOOLEAN, ks \in SUBSET (1..MaxIndex)}

InitSetup ==
  /\ Constructed(<<>>, EnvAbsent)
  /\ \E s \in {NoStrategy} \cup ByteStrategies, m \in InitModes,
        fs \in FoundFiles :
       SinkConstructed(Configured(s, m, 2, Level.DEBUG), fs)

NextSetup ==
  \/ Setup
  \/ \E size \in RecordSizes : LogCall(size)

SpecSetup == InitSetup /\ [][NextSetup]_vars

\* the Logger handed objects whose members raise
NextThrow ==
  \/ \E level \in {Level.WARNING} : WithLevel(level)
  \/ \E stream \in {"s1"} \cup HandleThrows \cup SetupThrows : AddStream(stream)
  \/ \E stream \in {"s1"} \cup HandleThrows \cup SetupThrows :
       RemoveStream(stream)
  \/ \E trigger \in {"t1"} \cup ThrowingTriggers : AddTrigger(trigger)
  \/ \E filter \in {"f1"} \cup ThrowingFilters : AddFilter(filter)
  \/ \E filter \in {"f1"} \cup ThrowingFilters : RemoveFilter(filter)
  \/ \E obfuscator \in {"o1"} \cup ThrowingObfuscators :
       AddObfuscator(obfuscator)
  \/ \E level \in EmitLevels, msg \in [fn : {FALSE}, val : Msgs] :
       Emit(level, msg)

SpecThrow == Init /\ [][NextThrow]_vars

InitLevel ==
  \E args \in ArgLists, env \in EnvInputs : Constructed(args, env) /\ SinkInit

\* every level of the enumeration
Levels == {Level[n] : n \in DOMAIN Level}

NextLevel ==
  \/ \E level \in Levels : WithLevel(level)
  \/ \E level \in EmitLevels, msg \in MsgArgs : Emit(level, msg)

SpecLevel == InitLevel /\ [][NextLevel]_vars

(***************************************************************************)
(* Observations used by the properties                                     *)
(***************************************************************************)
\* the most recent operation was an emit
IsEmit == op.name = "emit"
\* ... whose level is below the minimum level
EmitBelowMin == IsEmit /\ op.level < minLevel
\* ... whose level is not below the minimum level
EmitPassed == IsEmit /\ op.level >= minLevel

\* the calls of one member, and the calls inside iteration i of the stream loop
CallsOf(cs, fn) == SelectSeq(cs, LAMBDA c : c.fn = fn)
CallsAt(cs, i) == SelectSeq(cs, LAMBDA c : c.i = i)
\* the objects a sequence of calls was made on
Who(cs) == [k \in 1..Len(cs) |-> cs[k].who]
\* what a recorded filter call returned
Returned(c) == shouldFilterOut(c.who, c.stream, c.rec)
\* the record the emit constructed
FreshRecord == [msg |-> op.msg.val, level |-> op.level]

\* C1: an emit whose level is below the minimum level invokes nothing: not
\* the message supplier, no trigger, no filter, no obfuscator, no handle;
\* and given a supplier it returns undefined.
C1_GatedEmitInvokesNothing ==
  EmitBelowMin => /\ calls = <<>>
                  /\ op.msg.fn => ret = Undefined

\* a supplier was emitted below the minimum level while a trigger, a filter
\* and a stream were registered
C1_Witness ==
  /\ EmitBelowMin /\ op.msg.fn
  /\ triggers # <<>> /\ filters # <<>> /\ streams # <<>>
  /\ calls = <<>> /\ ret = Undefined

\* C2: emit returns the concrete message itself whether or not the level
\* passes the gate; for a supplier that passes the gate it returns what the
\* supplier returned, the supplier is invoked exactly once, and that value is
\* the msg of the record constructed: the record every trigger receives and
\* the record the first call of the stream loop receives.
C2_EmitReturn ==
  /\ (IsEmit /\ ~op.msg.fn) =>
       /\ ret = op.msg.val
       /\ CallsOf(calls, "msg") = <<>>
  /\ (EmitPassed /\ op.msg.fn) =>
       /\ ret = op.msg.val
       /\ Len(CallsOf(calls, "msg")) = 1
       /\ calls[1].fn = "msg"
  /\ EmitPassed =>
       /\ \A k \in 1..Len(calls) :
            calls[k].fn = "check" => calls[k].rec.msg = ret
       /\ CallsAt(calls, 1) # <<>> => CallsAt(calls, 1)[1].rec.msg = ret

\* a supplier passed the gate and its value reached a trigger and a stream
C2_Witness ==
  /\ EmitPassed /\ op.msg.fn /\ ret = "obfuscate"
  /\ CallsOf(calls, "check") # <<>>
  /\ CallsOf(calls, "handle") # <<>>

\* C3: for every stream of one emit the filters are evaluated in
\* registration order; once one returns true no later filter is evaluated
\* for that stream, no obfuscator is run for it and handle is not invoked on
\* it; otherwise every filter is evaluated.  A filter that removeFilter has
\* removed is not in the list, so no later emit evaluates it.
C3_FilterShortCircuit ==
  /\ EmitPassed =>
       \A i \in 1..Len(streams) :
         LET at == CallsAt(calls, i)
             fc == CallsOf(at, "shouldFilterOut")
         IN  /\ Who(fc) = SubSeq(filters, 1, Len(fc))
             /\ \A k \in 1..Len(fc) : fc[k].stream = streams[i]
             /\ \A k \in 1..(Len(fc) - 1) : ~Returned(fc[k])
             /\ IF fc # <<>> /\ Returned(fc[Len(fc)])
                THEN at = fc
                ELSE Len(fc) = Len(filters)
  /\ IsEmit => \A k \in 1..Len(calls) :
                 calls[k].fn = "shouldFilterOut" => calls[k].who \in Range(filters)
  /\ op.name = "removeFilter" => op.arg \notin Range(filters)

\* the first of two filters filtered a record out of s1 and the second was
\* evaluated for s2 only
C3_Witness ==
  /\ EmitPassed /\ streams = <<"s1", "s2">> /\ filters = <<"f1", "f2">>
  /\ op.msg.val = "Filter out"
  /\ Len(CallsAt(calls, 1)) = 1
  /\ Len(CallsOf(CallsAt(calls, 2), "shouldFilterOut")) = 2
  /\ Who(CallsOf(calls, "handle")) = <<"s2">>

\* a filter that was registered has been removed
C3_WitnessRemoved == op.name = "removeFilter" /\ op.had

\* C4 (as claimed): whether an earlier stream A is filtered out makes no
\* difference to a later stream B.  A is s1; calls is the emit as run and
\* shadow the same emit with s1 filtered out by a filter registered first.
\* For every stream other than s1 that comes after an s1, the calls of its
\* iteration (the filters' inputs, the obfuscators' inputs, whether handle
\* is invoked and with which record) are the same in both runs, the shadow
\* run's evaluation of the added filter left aside.
C4_SkipOfEarlierStreamDoesNotAffectLater ==
  EmitPassed =>
    \A a, b \in 1..Len(streams) :
      (a < b /\ streams[a] = "s1" /\ streams[b] # "s1") =>
        CallsAt(calls, b) = Tail(CallsAt(shadow, b))

\* the same statement for the engines that have no obfuscator registered
C4_SkipIndependenceWithoutObfuscators ==
  obfuscators = <<>> => C4_SkipOfEarlierStreamDoesNotAffectLater

\* the record iteration i of the stream loop starts from: the record the
\* emit constructed, replaced by what each earlier stream was handed
RECURSIVE RecordInto(_)
RecordInto(i) ==
  IF i = 1 THEN FreshRecord
  ELSE LET h == CallsOf(CallsAt(calls, i - 1), "handle")
       IN  IF h = <<>> THEN RecordInto(i - 1) ELSE h[1].rec

\* C5: within one emit, for every stream that is not filtered out, every
\* registered obfuscator runs in registration order, the first on the record
\* the iteration starts from and each next one on the record the one before
\* returned; handle gets the last record returned; and the record handed to
\* one stream is the record the next stream's filters, obfuscators and
\* handle start from.
C5_ObfuscationCumulative ==
  EmitPassed =>
    \A i \in 1..Len(streams) :
      LET at == CallsAt(calls, i)
          fc == CallsOf(at, "shouldFilterOut")
          oc == CallsOf(at, "obfuscate")
          hc == CallsOf(at, "handle")
      IN  /\ \A k \in 1..Len(fc) : fc[k].rec = RecordInto(i)
          /\ Who(oc) = IF hc # <<>> THEN obfuscators ELSE <<>>
          /\ oc # <<>> => oc[1].rec = RecordInto(i)
          /\ \A k \in 1..(Len(oc) - 1) :
               oc[k + 1].rec = obfuscate(oc[k].who, oc[k].stream, oc[k].rec)
          /\ hc # <<>> =>
               hc[1].rec = IF oc = <<>> THEN RecordInto(i)
                           ELSE obfuscate(oc[Len(oc)].who, oc[Len(oc)].stream,
                                          oc[Len(oc)].rec)

\* o1 rewrote the message for s1 only, and s2, the later stream, was handed
\* the rewritten record
C5_Witness ==
  /\ EmitPassed /\ streams = <<"s1", "s2">> /\ obfuscators = <<"o1">>
  /\ FreshRecord.msg = "obfuscate"
  /\ CallsOf(CallsAt(calls, 2), "obfuscate")[1].rec.msg = "*********"
  /\ CallsOf(CallsAt(calls, 2), "handle")[1].rec.msg = "*********"

\* no filter evaluated by the emit returned true
NoFilterSkipped ==
  \A k \in 1..Len(calls) :
    calls[k].fn = "shouldFilterOut" => ~Returned(calls[k])

\* C6: an emit that passes the gate and in which no filter returns true
\* invokes handle once per registered stream, in registration order; with
\* no obfuscator registered every stream receives the record constructed.
C6_EveryStreamHandlesInOrder ==
  (EmitPassed /\ NoFilterSkipped) =>
    LET hc == CallsOf(calls, "handle")
    IN  /\ Who(hc) = streams
        /\ \A k \in 1..Len(hc) : hc[k].i = k /\ hc[k].stream = streams[k]
        /\ obfuscators = <<>> => \A k \in 1..Len(hc) : hc[k].rec = FreshRecord

\* two streams, registered s2 first, both handled a record that a
\* registered filter let through
C6_Witness ==
  /\ EmitPassed /\ streams = <<"s2", "s1">> /\ filters # <<>>
  /\ NoFilterSkipped
  /\ Who(CallsOf(calls, "handle")) = <<"s2", "s1">>

\* C7: an emit that passes the gate invokes every registered trigger once,
\* in registration order, with the record constructed, after the supplier
\* and before every call of the stream loop.  A trigger that removeTrigger
\* has removed is not in the list, so no later emit invokes it.
C7_TriggersFirstInOrder ==
  /\ EmitPassed =>
       LET n  == Len(CallsOf(calls, "msg"))
           m  == Len(triggers)
       IN  /\ Len(calls) >= n + m
           /\ Who(SubSeq(calls, n + 1, n + m)) = triggers
           /\ \A k \in (n + 1)..(n + m) :
                calls[k].fn = "check" /\ calls[k].rec = FreshRecord
           /\ \A k \in (n + m + 1)..Len(calls) :
                calls[k].fn \in {"shouldFilterOut", "obfuscate", "handle"}
  /\ op.name = "removeTrigger" => op.arg \notin Range(triggers)

\* two triggers, registered t2 first, were invoked ahead of a stream's handle
C7_Witness ==
  /\ EmitPassed /\ triggers = <<"t2", "t1">>
  /\ Who(CallsOf(calls, "check")) = <<"t2", "t1">>
  /\ calls[Len(calls)].fn = "handle"

\* a trigger received the record constructed although an obfuscator rewrote
\* it for the stream
C7_WitnessNotObfuscated ==
  /\ EmitPassed /\ triggers # <<>>
  /\ \E k \in 1..Len(calls) : calls[k].fn = "handle" /\ calls[k].rec # FreshRecord

\* the members a sequence of calls invoked
Fn(cs) == [k \in 1..Len(cs) |-> cs[k].fn]
\* the hooks among hs that the stream declares, in the order of hs
Present(stream, hs) == SelectSeq(hs, LAMBDA h : h \in Hooks(stream))

\* C8: addStream appends the stream to the registered list (the first call
\* on an engine appends it to an empty list instead, dropping the default
\* stream) and invokes on it setup and then logHeader, each only if
\* declared.  The list changes in no other way than by addStream's append
\* and removeStream's removal, so once a stream has been added it holds the
\* added and not removed streams in insertion order, and never the default.
C8_AddStream ==
  /\ [](op.name = "addStream" =>
          /\ Fn(calls) = Present(op.arg, <<"setup", "logHeader">>)
          /\ \A k \in 1..Len(calls) : calls[k].who = op.arg
          /\ streams # <<>> /\ streams[Len(streams)] = op.arg)
  /\ [](IF streamAdded THEN ConsoleStream \notin Range(streams)
        ELSE streams = <<ConsoleStream>>)
  /\ [][op'.name = "addStream" =>
          /\ streamAdded'
          /\ streams' = Append(IF streamAdded THEN streams ELSE <<>>, op'.arg)]_vars
  /\ [][op'.name \notin {"addStream", "removeStream"} =>
          streams' = streams /\ streamAdded' = streamAdded]_vars

\* s1 was added after s2: setup and logHeader were invoked on it, in that
\* order, and the default stream is gone
C8_Witness ==
  /\ op.name = "addStream" /\ op.arg = "s1"
  /\ Fn(calls) = <<"setup", "logHeader">>
  /\ streams = <<"s2", "s1">>

\* C9: removing a registered stream invokes on it logFooter and then
\* destroy, once each and each only if declared, and takes every occurrence
\* of it, and nothing else, out of the list.  Every handle call of an emit
\* and every logFooter and destroy call of the unload listener is made on a
\* stream that is in the list, so a removed stream gets none of them.
C9_RemoveStream ==
  /\ []((op.name = "removeStream" /\ op.had) =>
          /\ Fn(calls) = Present(op.arg, <<"logFooter", "destroy">>)
          /\ \A k \in 1..Len(calls) : calls[k].who = op.arg
          /\ op.arg \notin Range(streams))
  /\ []((IsEmit \/ op.name = "unload") =>
          \A k \in 1..Len(calls) :
            calls[k].fn \in {"handle", "logFooter", "destroy"} =>
              calls[k].who \in Range(streams))
  /\ [][op'.name = "removeStream" =>
          /\ op'.had = (op'.arg \in Range(streams))
          /\ streams' = SelectSeq(streams, LAMBDA s : s # op'.arg)]_vars

\* s1, registered ahead of s2, was removed: logFooter and destroy were
\* invoked on it, in that order, and s2 stays registered
C9_Witness ==
  /\ op.name = "removeStream" /\ op.arg = "s1" /\ op.had
  /\ Fn(calls) = <<"logFooter", "destroy">>
  /\ streams = <<"s2">>

\* the number of teardown hooks a stream declares
TeardownCount(stream) ==
  Cardinality(Hooks(stream) \cap {"logFooter", "destroy"})

\* the number of calls the unload listener makes before it reaches the
\* stream at index k
RECURSIVE UnloadOffset(_)
UnloadOffset(k) ==
  IF k = 1 THEN 0 ELSE UnloadOffset(k - 1) + TeardownCount(streams[k - 1])

\* C10: the unload listener goes through the registered streams in
\* registration order and invokes on each logFooter and then destroy, each
\* only if declared; it makes no other call, so a stream that is not
\* registered any more is not invoked.
C10_UnloadTearsDownInOrder ==
  op.name = "unload" =>
    /\ Len(calls) = UnloadOffset(Len(streams) + 1)
    /\ \A k \in 1..Len(streams) :
         LET s   == streams[k]
             off == UnloadOffset(k)
         IN  /\ "logFooter" \in Hooks(s) =>
                  calls[off + 1].fn = "logFooter" /\ calls[off + 1].who = s
             /\ "destroy" \in Hooks(s) =>
                  /\ calls[off + TeardownCount(s)].fn = "destroy"
                  /\ calls[off + TeardownCount(s)].who = s

\* unload with s1 and s2 registered: footer and destroy on s1, then destroy
\* on s2, which declares no logFooter
C10_Witness ==
  /\ op.name = "unload" /\ streams = <<"s1", "s2">>
  /\ Fn(calls) = <<"logFooter", "destroy", "destroy">>
  /\ Who(calls) = <<"s1", "s1", "s2">>

\* the index of the first minLogLevel token of the command line, 0 if none
FirstLevelToken ==
  LET at == {k \in 1..Len(ctor.args) : ctor.args[k].key = "minLogLevel"}
  IN  IF at = {} THEN 0 ELSE CHOOSE k \in at : \A j \in at : k <= j

\* the environment variable was read and holds a non-empty value
EnvPresent == ~ctor.env.throws /\ ctor.env.set /\ ctor.env.value # ""

\* the source of highest precedence that is present, and the level it names
WinningSource ==
  IF levelSet # NoLevel
  THEN [from |-> "logger.level()", level |-> levelSet]
  ELSE IF FirstLevelToken # 0
  THEN [from |-> "command line arguments",
        level |-> NameToLevel(ctor.args[FirstLevelToken].value)]
  ELSE IF EnvPresent
  THEN [from |-> "environment variable", level |-> NameToLevel(ctor.env.value)]
  ELSE [from |-> "default value", level |-> Level.DEBUG]

\* C11: the minimum level is the one named by the source of highest
\* precedence that is present: the latest withLevel call, else the first
\* minLogLevel=<NAME> token of the command line, else the (non-empty)
\* LOGGEAR_MIN_LEVEL variable, else DEBUG; a name that is no level name
\* gives the level 1.  Meta.minLogLevel is that level, Meta.minLogLevelFrom
\* names that source, and it is the level emits are gated by.
C11_LevelPrecedence ==
  /\ minLevel = WinningSource.level
  /\ meta.minLogLevel = minLevel
  /\ meta.minLogLevelFrom = WinningSource.from
  /\ IsEmit => ((calls = <<>>) <=> (op.level < WinningSource.level))

\* the command line names INFO, after another token, and the environment
\* names ERROR: the command line wins, and an INFO record has been emitted
C11_Witness ==
  /\ levelSet = NoLevel
  /\ ctor.args = <<[key |-> "other", value |-> "INFO"],
                   [key |-> "minLogLevel", value |-> "INFO"]>>
  /\ ctor.env = [throws |-> FALSE, set |-> TRUE, value |-> "ERROR"]
  /\ minLevel = Level.INFO
  /\ meta.minLogLevelFrom = "command line arguments"
  /\ IsEmit /\ op.level = Level.INFO /\ calls # <<>>

\* withLevel was called on an engine whose command line named a level
C11_WitnessWithLevel ==
  /\ levelSet = Level.CRITICAL /\ FirstLevelToken # 0
  /\ meta.minLogLevelFrom = "logger.level()"

\* C14 (as claimed): when reading the environment variable fails, the
\* engine is constructed all the same, its level is the one it would have
\* with the variable absent, and Meta's unableToReadEnvVar flag is set.
C14_EnvReadFailureRecorded ==
  ctor.env.throws =>
    /\ levelSet = NoLevel =>
         minLevel = IF FirstLevelToken # 0
                    THEN NameToLevel(ctor.args[FirstLevelToken].value)
                    ELSE Level.DEBUG
    /\ meta.unableToReadEnvVar

\* the part of C14 the code keeps: a failed read applies no override
C14_EnvReadFailureIsAbsence ==
  (ctor.env.throws /\ levelSet = NoLevel) =>
    /\ minLevel = IF FirstLevelToken # 0
                  THEN NameToLevel(ctor.args[FirstLevelToken].value)
                  ELSE Level.DEBUG
    /\ meta.minLogLevelFrom # "environment variable"

\* the iteration of the stream loop in which the emit was left (0: in the
\* trigger loop)
LeftAt == calls[Len(calls)].i
\* iteration j of the stream loop handed the record to its stream
Handled(j) ==
  \E k \in 1..Len(calls) :
    calls[k].i = j /\ calls[k].fn = "handle" /\ calls[k].who = streams[j]
\* a filter returned true in iteration j of the stream loop
FilteredOut(j) ==
  \E k \in 1..Len(calls) :
    calls[k].i = j /\ calls[k].fn = "shouldFilterOut" /\ Returned(calls[k])

\* C12: what a trigger, filter, obfuscator or handle raises during an emit
\* leaves the emit call, and the call that raised is the last call of the
\* emit: streams after the failing point get no filter, obfuscator or
\* handle call, while every earlier stream that was not filtered out has
\* been handled.  A registered trigger that raises is always reached, and
\* so is a raising handle when no filter and no obfuscator is registered.
\* An emit, raising or not, changes neither the registered lists nor the
\* minimum level.
C12_ErrorsPropagate ==
  /\ [](EmitPassed =>
          /\ (ret = Thrown) <=> (\E k \in 1..Len(calls) : Throws(calls[k]))
          /\ \A k \in 1..Len(calls) : Throws(calls[k]) => k = Len(calls)
          /\ (Range(triggers) \cap ThrowingTriggers # {}) =>
               /\ ret = Thrown
               /\ \A k \in 1..Len(calls) : calls[k].fn = "check"
          /\ ( /\ Range(triggers) \cap ThrowingTriggers = {}
               /\ filters = <<>> /\ obfuscators = <<>>
               /\ Range(streams) \cap HandleThrows # {} ) =>
               /\ ret = Thrown
               /\ calls[Len(calls)].fn = "handle"
          /\ (ret = Thrown) =>
               /\ \A k \in 1..Len(calls) : calls[k].i <= LeftAt
               /\ \A j \in 1..Len(streams) :
                    /\ j < LeftAt => (Handled(j) <=> ~FilteredOut(j))
                    /\ j > LeftAt => CallsAt(calls, j) = <<>>)
  /\ [][op'.name = "emit" =>
          UNCHANGED <<streams, filters, triggers, obfuscators, streamAdded,
                      minLevel>>]_vars

\* the handle of the first of two streams raised: the emit made that one
\* call and the second stream got none
C12_Witness ==
  /\ EmitPassed /\ ret = Thrown
  /\ streams = <<"sx", "s1">>
  /\ Fn(calls) = <<"handle">>

\* the handle of the second stream raised after the first was handled
C12_WitnessEarlierStands ==
  /\ EmitPassed /\ ret = Thrown
  /\ streams = <<"s1", "sx">>
  /\ Who(CallsOf(calls, "handle")) = <<"s1", "sx">>

\* a filter raised in the second iteration of the stream loop
C12_WitnessFilter ==
  /\ EmitPassed /\ ret = Thrown
  /\ Len(streams) = 2 /\ LeftAt = 2
  /\ calls[Len(calls)].fn = "shouldFilterOut"

\* C13 (as claimed): a stream whose setup raises while it is being added
\* is not left in the registered list, and no later emit invokes handle on
\* it.
C13_SetupFailureAbortsActivation ==
  \A stream \in SetupThrows :
    /\ stream \notin Range(streams)
    /\ IsEmit => stream \notin Range(Who(CallsOf(calls, "handle")))

\* the part of C13 the code keeps: what setup raises leaves addStream, and
\* logHeader is not called
C13_SetupErrorSurfaces ==
  (op.name = "addStream" /\ op.arg \in SetupThrows) =>
    /\ ret = Thrown
    /\ Fn(calls) = <<"setup">>

(***************************************************************************)
(* The file stream: what is observed                                       *)
(***************************************************************************)
\* the accepted record of the given id
RecOf(id) == accepted[CHOOSE k \in 1..Len(accepted) : accepted[k].id = id]
\* the bytes of the accepted records of the given ids, in that order
RECURSIVE BytesOf(_)
BytesOf(ids) ==
  IF ids = <<>> THEN <<>> ELSE FileBytes(RecOf(Head(ids))) \o BytesOf(Tail(ids))
\* s ends with, begins with, t
EndsWith(s, t) ==
  Len(t) <= Len(s) /\ SubSeq(s, Len(s) - Len(t) + 1, Len(s)) = t
BeginsWith(s, t) == Len(t) <= Len(s) /\ SubSeq(s, 1, Len(t)) = t
\* the latest call was handle with a record above ERROR that the stream's
\* own minimum level lets through
HighSeverityHandled ==
  /\ sinkOp.name = "handle"
  /\ sinkOp.rec.level > Level.ERROR
  /\ sinkOp.rec.level >= cfg.minLogLevel

\* C15: when handle, given a record above ERROR and not below the stream's
\* minimum level, has returned, then (no microtask having run since) the
\* deferred queue is empty, the buffer holds no bytes, and the log file
\* ends with the bytes of the records that were queued, in queue order,
\* followed by the bytes of this record.
C15_HighSeverityFlushed ==
  (HighSeverityHandled /\ sinkOp.threw = NoError) =>
    /\ queue = <<>>
    /\ buffer = <<>>
    /\ EndsWith(files[0].bytes,
                BytesOf(sinkOp.queued) \o FileBytes(sinkOp.rec))

\* a CRITICAL record was handled after a deferred record had been queued,
\* on a stream with a byte rotation strategy, and handle returned
C15_Witness ==
  /\ HighSeverityHandled /\ sinkOp.threw = NoError
  /\ sinkOp.queued # <<>>
  /\ cfg.strategy.kind = "bytes"
  /\ microtasks > 0

\* since the latest microtask only records below the threshold have been
\* handled, at least one, and the queue was empty before them
PureBatch == turn.pure /\ turn.emptyAtStart /\ Len(turn.handled) >= 1

\* C16 (as claimed): the records below the threshold handled in one turn,
\* from an empty queue, schedule exactly one drain and are not written
\* before the turn ends; the drain that then runs writes all of them, in
\* the order handled, and leaves the queue empty.
C16_DeferredBatching ==
  /\ [](PureBatch => /\ turn.scheduled = 1
                     /\ Ids(queue) = turn.handled
                     /\ Len(written) = turn.before)
  /\ [][(PureBatch /\ microtasks' = microtasks - 1) =>
          /\ written' = written \o turn.handled
          /\ queue' = <<>>]_vars

\* the part of C16 the code keeps: one drain is scheduled, nothing is
\* written during the turn, and a drain that ends without an error has
\* written the batch in order and emptied the queue
C16_BatchingUnlessDrainThrows ==
  /\ [](PureBatch => /\ turn.scheduled = 1
                     /\ Ids(queue) = turn.handled
                     /\ Len(written) = turn.before)
  /\ [][(PureBatch /\ microtasks' = microtasks - 1
           /\ sinkOp'.threw = NoError) =>
          /\ written' = written \o turn.handled
          /\ queue' = <<>>]_vars

\* the ids of the accepted records
AcceptedIds == Range(Ids(accepted))

\* C17 (as claimed): the accepted records reach the write path in the order
\* in which handle accepted them: no record is written after a record
\* accepted later.
C17_Fifo ==
  \A a, b \in 1..Len(written) :
    (a < b /\ written[a] \in AcceptedIds /\ written[b] \in AcceptedIds) =>
      written[a] <= written[b]

\* the steps from position k of the latest call: the writes of the flush,
\* then flush, close, rotate, open and the write of the message
RotationStepsFrom(k) ==
  \E j \in (k + 1)..Len(sinkOp.steps) :
    /\ \A i \in (k + 1)..(j - 1) : sinkOp.steps[i] = "write"
    /\ j + 4 <= Len(sinkOp.steps)
    /\ SubSeq(sinkOp.steps, j, j + 4)
         = <<"flush", "close", "rotate", "open", "write">>

\* C18 (as claimed): whenever a write triggers rotation, the buffer is
\* flushed, the file closed, the files rotated, the new file opened and
\* the message appended, in this order; the bytes written before are in
\* the backup .1, and the bytes of the message are in the new log file
\* only.
C18_RotationKeepsBytes ==
  /\ [](\A k \in 1..Len(sinkOp.steps) :
          sinkOp.steps[k] = "shouldRotate" => RotationStepsFrom(k))
  /\ [][(\E k \in 1..Len(sinkOp'.steps) : sinkOp'.steps[k] = "shouldRotate")
          => /\ files'[1].exists
             /\ BeginsWith(files'[1].bytes, files[0].bytes \o buffer)
             /\ sinkOp'.name = "log" =>
                  /\ sinkOp'.rec.id \notin Range(files'[1].bytes)
                  /\ sinkOp'.rec.id \in Range(files'[0].bytes \o buffer')
       ]_vars

\* the part of C18 the code keeps: a log call made while the deferred
\* queue is empty rotates in the order claimed and loses no byte
C18_RotationOutsideDrain ==
  /\ []((sinkOp.name = "log" /\ sinkOp.queued = <<>>) =>
          \A k \in 1..Len(sinkOp.steps) :
            sinkOp.steps[k] = "shouldRotate" => RotationStepsFrom(k))
  /\ [][(/\ sinkOp'.name = "log" /\ sinkOp'.queued = <<>>
         /\ \E k \in 1..Len(sinkOp'.steps) : sinkOp'.steps[k] = "shouldRotate")
          => /\ files'[1].bytes = files[0].bytes \o buffer
             /\ files'[0].bytes \o buffer' = FileBytes(sinkOp'.rec)
       ]_vars

\* a log call has rotated the file
C18_WitnessRotated ==
  /\ sinkOp.name = "log" /\ sinkOp.threw = NoError
  /\ sinkOp.steps = <<"shouldRotate", "flush", "close", "rotate", "open",
                      "write">>
  /\ Len(files[1].bytes) > 1

\* the bytes of the messages written since setup that the files and the
\* buffer hold
NewBytes(bytes) == SelectSeq(bytes, LAMBDA x : x >= 1)
BytesHeld ==
  Len(NewBytes(files[0].bytes \o buffer))
    + Len(NewBytes(files[1].bytes)) + Len(NewBytes(files[2].bytes))

\* C19 (as claimed): on a stream with a byte strategy of M bytes that
\* started with an empty log file, once messages of at most M bytes each
\* totalling more than M bytes have been written, a rotation has taken
\* place: the backup .1 holds what was written before it, and the log file
\* what was written after it.
C19_RotationRoundTrip ==
  ( /\ cfg.strategy.kind = "bytes" /\ cfg.strategy.maxBytes = 2
    /\ cfg.initMode # "append"
    /\ phase = "open" /\ queue = <<>>
    /\ BytesHeld > cfg.strategy.maxBytes ) =>
    /\ files[1].exists
    /\ NewBytes(files[1].bytes) # <<>>
    /\ Len(files[0].bytes \o buffer) <= cfg.strategy.maxBytes

\* the backups that exist
Backups == {k \in 1..MaxIndex : files[k].exists}

\* C20 (as claimed): with a retention of N files and init mode overwrite,
\* after setup at most N backups exist, whatever backups existed before.
C20_RetentionSweep ==
  ( /\ sinkOp.name = "setup" /\ sinkOp.threw = NoError
    /\ cfg.strategy.kind = "bytes" /\ cfg.initMode = "overwrite" ) =>
    Cardinality(Backups) <= cfg.strategy.quantity

\* the part of C20 the code keeps: no backup of index N or less is left
C20_SweepUpToQuantity ==
  ( /\ sinkOp.name = "setup" /\ sinkOp.threw = NoError
    /\ cfg.strategy.kind = "bytes" /\ cfg.initMode = "overwrite" ) =>
    Backups \cap (1..cfg.strategy.quantity) = {}

\* ---- setup under mustNotExist ----

\* a backup within the retention horizon exists: a numbered backup of index
\* N or less under a retention counting files, a date-suffixed backup
\* younger than the horizon under a retention in days or hours
Collision ==
  IF cfg.strategy.type = "files"
  THEN \E k \in 1..cfg.strategy.quantity : files[k].exists
  ELSE "recent" \in dated

\* a step that is a call of setup
SetupStep == phase = "new" /\ phase' # "new"

\* C21 (as claimed): under init mode mustNotExist, when a backup within the
\* retention horizon exists, setup raises the collision error and leaves
\* every file as it was.
C21_MustNotExistCollision ==
  [][( /\ SetupStep /\ cfg.initMode = "mustNotExist"
       /\ cfg.strategy.kind # "none" /\ Collision ) =>
       sinkOp'.threw = "Error" /\ files' = files]_vars

\* the part of C21 the code keeps: the byte strategy with a retention
\* counting files
C21_CountCollisionRaises ==
  [][( /\ SetupStep /\ cfg.initMode = "mustNotExist"
       /\ cfg.strategy.kind = "bytes" /\ cfg.strategy.type = "files"
       /\ Collision ) =>
       sinkOp'.threw = "Error" /\ files' = files]_vars

\* ---- the date/time strategy ----

\* the bytes of the log file, those still in the buffer included
LiveBytes == files[0].bytes \o buffer

\* the records written since the period boundary
CurrentPeriod == {written[k] : k \in (periodStart + 1)..Len(written)}

\* a write has been made since the wall clock passed the period boundary
WrittenAfterBoundary ==
  /\ cfg.strategy.kind = "datetime"
  /\ boundaryCrossed
  /\ Len(written) > periodStart

\* C22 (as claimed): under a date/time strategy, once a write has been made
\* after the period boundary, the log file holds only what was written in
\* the current period: the first such write rotated the earlier content
\* away.
C22_DateTimeRotates ==
  WrittenAfterBoundary => \A b \in Range(LiveBytes) : b \in CurrentPeriod

\* ---- rotation as a finite transition ----

\* how often the latest call took the step of the given name
Taken(name) ==
  Cardinality({k \in 1..Len(sinkOp.steps) : sinkOp.steps[k] = name})

\* C23 (as claimed): a call in which writes found shouldRotate true has
\* returned without raising, having flushed, closed, rotated and reopened
\* once for each such write and appended its message, and the file is open
\* again; this whether the write came from a log call or from a drain of
\* the deferred queue.
C23_RotationIsFinite ==
  Taken("shouldRotate") > 0 =>
    /\ sinkOp.threw = NoError
    /\ \A name \in {"flush", "close", "rotate", "open"} :
         Taken(name) = Taken("shouldRotate")
    /\ Taken("write") >= Taken("shouldRotate")
    /\ isOpen

\* the part of C23 the code keeps: a write that log is called with while
\* the deferred queue is empty
C23_DirectRotationIsFinite ==
  (sinkOp.name = "log" /\ sinkOp.queued = <<>> /\ Taken("shouldRotate") > 0)
    => /\ sinkOp.threw = NoError
       /\ \A name \in {"flush", "close", "rotate", "open", "write"} :
            Taken(name) = 1
       /\ isOpen

\* ---- flush ----

\* C24 (as claimed): after a flush the deferred queue and the buffer are
\* empty and every accepted record has been written; a flush right after a
\* flush, or with nothing queued and nothing buffered, changes neither the
\* queue, the buffer nor the files and does not raise.
C24_FlushIdempotent ==
  /\ [](sinkOp.name = "flush" =>
          /\ queue = <<>> /\ buffer = <<>>
          /\ AcceptedIds \subseteq Range(written))
  /\ [][( /\ sinkOp'.name = "flush"
          /\ sinkOp.name = "flush" \/ (queue = <<>> /\ buffer = <<>>) ) =>
          /\ UNCHANGED <<queue, buffer, files>>
          /\ sinkOp'.threw = NoError]_vars

\* the part of C24 the code keeps: a flush that returns leaves the queue and
\* the buffer empty and every accepted record written, and a flush with
\* nothing queued and nothing buffered changes nothing and does not raise
C24_FlushThatReturns ==
  /\ []((sinkOp.name = "flush" /\ sinkOp.threw = NoError) =>
          /\ queue = <<>> /\ buffer = <<>>
          /\ AcceptedIds \subseteq Range(written))
  /\ [][(sinkOp'.name = "flush" /\ queue = <<>> /\ buffer = <<>>) =>
          /\ UNCHANGED <<queue, buffer, files>>
          /\ sinkOp'.threw = NoError]_vars

\* ---- the current size of the byte strategy ----

\* C25 (as claimed): between calls, on an open stream with a byte strategy,
\* the strategy's current size is the size of the log file: the bytes the
\* file holds and those written to it that are still in the buffer.
C25_CurrentSizeTracksFile ==
  (phase = "open" /\ isOpen /\ cfg.strategy.kind = "bytes") =>
    currentFileSize = Len(files[0].bytes \o buffer)

\* the part of C25 the code keeps: the size is set when rotate returns, to
\* the bytes of the message that triggered it
C25_SizeSetByRotation ==
  ( /\ sinkOp.name = "log" /\ sinkOp.threw = NoError
    /\ Taken("rotate") = 1 /\ cfg.strategy.kind = "bytes" ) =>
    currentFileSize = sinkOp.rec.size

\* ---- the renames of rotate ----

\* a step in which a log call rotated the files of a byte strategy with a
\* retention counting files, and returned
RotationStep ==
  /\ cfg.strategy.kind = "bytes" /\ cfg.strategy.type = "files"
  /\ sinkOp'.name = "log" /\ sinkOp'.threw = NoError
  /\ nextId' = nextId + 1
  /\ \E k \in 1..Len(sinkOp'.steps) : sinkOp'.steps[k] = "rotate"

\* C26: when the byte strategy with a retention of N files rotates, every
\* backup .i with i in 1..N-1 that existed is afterwards at .(i+1) with its
\* content, so no such backup was overwritten before it was moved; the
\* backups of index above N are left as they were, and only the content of
\* the previous .N may be gone.
C26_CascadeRename ==
  [][RotationStep =>
       /\ \A i \in 1..(cfg.strategy.quantity - 1) :
            files[i].exists => files'[i + 1] = files[i]
       /\ \A k \in (cfg.strategy.quantity + 1)..MaxIndex :
            files'[k] = files[k]]_vars

\* a rotation under a retention of 2 files has moved the backup .1 that
\* setup found to .2, and the log file to .1
C26_Witness ==
  /\ cfg.strategy.kind = "bytes" /\ cfg.strategy.quantity = 2
  /\ sinkOp.name = "log" /\ sinkOp.threw = NoError
  /\ Taken("rotate") = 1
  /\ files[2] = File(OldBytes(1))
  /\ files[1].exists /\ files[1].bytes # OldBytes(1)

\* ---- the log file after rotate ----

\* the step the latest call took after its first rotate step
AfterRotate ==
  LET k == CHOOSE j \in 1..Len(sinkOp.steps) : sinkOp.steps[j] = "rotate"
  IN  IF k < Len(sinkOp.steps) THEN sinkOp.steps[k + 1] ELSE "none"

\* C27 (as claimed): when the byte strategy's rotate has returned, under a
\* retention counting files or one in days or hours, the log file has
\* become the backup .1 and the open with createNew that follows succeeds:
\* the call goes on to open and write, and does not raise.
C27_LiveFileMovedAway ==
  (cfg.strategy.kind = "bytes" /\ Taken("rotate") > 0) =>
    /\ sinkOp.threw = NoError
    /\ AfterRotate = "open"
    /\ files[1].exists

\* the part of C27 the code keeps: the retention counting files
C27_MovedUnderCountRetention ==
  ( /\ cfg.strategy.kind = "bytes" /\ cfg.strategy.type = "files"
    /\ Taken("rotate") > 0 ) =>
    /\ sinkOp.threw = NoError
    /\ AfterRotate = "open"
    /\ files[1].exists

\* ---- the retention bound ----

\* the stream was set up in overwrite mode with a byte strategy keeping N
\* files, and has rotated since: setup removed the backup .1
RotatedSinceOverwrite ==
  /\ phase = "open"
  /\ cfg.strategy.kind = "bytes" /\ cfg.strategy.type = "files"
  /\ cfg.initMode = "overwrite"
  /\ files[1].exists

\* the backups among ks hold only messages written since setup, those of a
\* lower index written later
MostRecentFirst(ks) ==
  /\ \A k \in ks : files[k].bytes = NewBytes(files[k].bytes)
  /\ \A j, k \in ks : j < k =>
       \A a \in Range(files[j].bytes), b \in Range(files[k].bytes) : a > b

\* C28 (as claimed): on a stream set up in overwrite mode with a byte
\* strategy keeping N files, after writes and rotations at most N numbered
\* backups exist, and they are the latest rotated files, .1 the latest.
C28_RetentionBound ==
  RotatedSinceOverwrite =>
    /\ Cardinality(Backups) <= cfg.strategy.quantity
    /\ MostRecentFirst(Backups)

\* the part of C28 the code keeps: the backups of index N or less
C28_BoundUpToQuantity ==
  RotatedSinceOverwrite => MostRecentFirst(Backups \cap 1..cfg.strategy.quantity)

\* ---- the drain microtask ----

\* a step in which a scheduled drain microtask runs
DrainStep == microtasks' = microtasks - 1

\* C29 (as claimed): a drain microtask that runs completes: it does not
\* raise, it leaves the deferred queue empty, and every record that was
\* queued has been written, with no call from the owner of the stream.
C29_DrainCompletes ==
  [][DrainStep =>
       /\ sinkOp'.threw = NoError
       /\ queue' = <<>>
       /\ Range(Ids(queue)) \subseteq Range(written')]_vars

\* the part of C29 the code keeps: a drain in which no write finds
\* shouldRotate true, on a stream whose file is open
C29_DrainWithoutRotation ==
  [][( /\ DrainStep /\ isOpen
       /\ \A k \in 1..Len(sinkOp'.steps) : sinkOp'.steps[k] # "shouldRotate" )
       => /\ sinkOp'.threw = NoError
          /\ queue' = <<>>
          /\ Range(Ids(queue)) \subseteq Range(written')]_vars

\* ---- destroy ----

\* destroy was the latest call and it returned
DestroyReturned == sinkOp.name = "destroy" /\ sinkOp.threw = NoError

\* C30: when destroy returns, the deferred queue and the buffer are empty,
\* the accepted records have been written once each in the order accepted,
\* what was buffered and queued at the call is at the end of the log file
\* in that order, and the file is closed; a drain microtask that runs
\* afterwards writes nothing, changes nothing and does not raise.
C30_DestroyFlushesAndCloses ==
  /\ [](DestroyReturned =>
          /\ queue = <<>> /\ buffer = <<>> /\ ~isOpen
          /\ SelectSeq(written, LAMBDA id : id \in AcceptedIds)
               = Ids(accepted))
  /\ [][DestroyReturned' /\ ~DestroyReturned =>
          files'[0].bytes = (files[0].bytes \o buffer) \o BytesOf(Ids(queue))
       ]_vars
  /\ [][(phase = "closed" /\ DrainStep) =>
          /\ UNCHANGED <<queue, buffer, files, written, isOpen>>
          /\ sinkOp'.threw = NoError]_vars

\* destroy has returned, called with records in the deferred queue and
\* their drain microtask still pending
C30_Witness ==
  /\ DestroyReturned
  /\ sinkOp.queued # <<>>
  /\ microtasks > 0
  /\ phase = "closed"

\* the pending drain microtask has run after destroy
C30_WitnessLateDrain ==
  phase = "closed" /\ sinkOp.name = "drain" /\ accepted # <<>>

\* ---- exactly-once writing ----

\* how often the record of the given id has reached the write path
TimesWritten(id) ==
  Cardinality({k \in 1..Len(written) : written[k] = id})

\* C31 (as claimed): every accepted record is written exactly once: never
\* twice, and once as soon as it has left the deferred queue.
C31_ExactlyOnce ==
  \A id \in AcceptedIds :
    /\ TimesWritten(id) <= 1
    /\ id \notin Range(Ids(queue)) => TimesWritten(id) = 1

\* the part of C31 the code keeps: no accepted record is dropped
C31_NeverDropped ==
  \A id \in AcceptedIds :
    id \notin Range(Ids(queue)) => TimesWritten(id) >= 1

\* ---- a pending drain for a non-empty queue ----

\* C32 (as claimed): between turns, a deferred queue that is not empty has
\* a drain microtask pending.
C32_QueuedImpliesPending == queue # <<>> => microtasks > 0

\* the part of C32 the code keeps: a call that does not raise preserves it
C32_PendingUnlessRaised ==
  [][((queue # <<>> => microtasks > 0) /\ sinkOp'.threw = NoError) =>
       (queue' # <<>> => microtasks' > 0)]_vars

\* ---- setup and destroy calls ----

\* the caller-made streams that declare setup and destroy
WithLifecycle ==
  {s \in TestStreams : "setup" \in Hooks(s) /\ "destroy" \in Hooks(s)}

\* C33 (as claimed): the Logger has called destroy on no stream more often
\* than it has called setup on it.
C33_DestroyWithinSetup ==
  \A s \in WithLifecycle : destroys[s] <= setups[s]

\* the part of C33 the code keeps: removeStream of a stream that is in the
\* list, and the unload listener, call destroy once for a stream on which
\* setup was called more often than destroy
C33_ListedKeepsBalance ==
  [][\A s \in WithLifecycle :
       ( /\ destroys[s] < setups[s]
         /\ \/ op'.name = "removeStream" /\ op'.arg = s /\ op'.had
            \/ op'.name = "unload" ) =>
       destroys'[s] <= setups'[s]]_vars

==========================================================================
